---- MODULE Spec2Model ----
(***************************************************************************)
(* Model of the pool allocator (pool.h and its implementation).            *)
(*                                                                         *)
(* A machine word (ss_t, unsigned) is the set of its bit positions that    *)
(* are 1, so the 64-bit words of an LP64 build need no 64-bit integers.    *)
(* The build modelled is the non-ARM one (REVERSE_SS undefined), with      *)
(* assertions enabled.  The width of unsigned long and of a pointer is     *)
(* implementation-defined and is drawn once, in Init, from ABIS.           *)
(*                                                                         *)
(* Undefined behaviour is never resolved to one outcome: an operator whose *)
(* C code can run into it returns the SET of results the call may yield,   *)
(* the flag ub records that it happened, and an out-of-bounds store may    *)
(* also end the process (status "crashed").                                *)
(***************************************************************************)
EXTENDS Integers, Sequences, FiniteSets, Bags, TLC

VARIABLES
    abi,      \* [long, ptr]: sizeof(unsigned long), sizeof(void*) of the build
    heap,     \* the pool structs malloc'ed so far; heap[1] is the head
    brk,      \* first address above every block malloc has handed out
    edata,    \* *edata as set by pool_create_extra (NULL if not requested)
    extra,    \* the extradata argument of pool_create_extra
    status,   \* "none" | "live" | "fatal" (assert failed) | "crashed" | "destroyed"
    op,       \* the last call: "init" | "create" | "alloc" | "free" | "destroy"
    ret,      \* what the last pool_alloc returned
    arg,      \* the ptr argument of the last pool_free
    live,     \* bag of pointers pool_alloc returned and the caller has not freed
    misuse,   \* the caller has passed pool_free a pointer it does not hold
    ub,       \* some call has executed undefined behaviour
    nalloc,   \* number of pool_alloc calls so far
    nfree,    \* number of pool_free calls with a non-null pointer so far
    hwm,      \* the most pointers the caller has held at once
    dtrace,   \* what the last pool_destroy did: its reads of a successor link
              \* and its calls of free, in order
    nx,       \* npot specification: the objsize argument (a 32-bit word)
    nl2s,     \* npot specification: the l2s recorded for it
    npc,      \* npot specification: "in" | "out"
    fin,      \* slot specification: the arguments [g, idx] of the call
    fout,     \* slot specification: the call made and what it returned
    fpc       \* slot specification: "in" | "out"

vars == <<abi, heap, brk, edata, extra, status, op, ret, arg, live, misuse,
          ub, nalloc, nfree, hwm, dtrace, nx, nl2s, npc, fin, fout, fpc>>

poolvars == <<abi, heap, brk, edata, extra, status, op, ret, arg, live,
              misuse, ub, nalloc, nfree, hwm, dtrace>>

npotvars == <<nx, nl2s, npc>>

slotvars == <<fin, fout, fpc>>

----------------------------------------------------------------------------
(* Bounds of the model.                                                    *)

\* largest objsize the caller passes to pool_create in Spec
MaxObjSize == 9
\* largest extradata the caller passes to pool_create_extra
MaxExtra == 8
\* pool_alloc calls per run of Spec
MaxAllocs == 4
\* pool_free calls (non-null pointer) per run of Spec
MaxFrees == 2
\* pool_alloc calls per run of SpecFill
MaxFill == 66
\* pool_free calls per run of SpecFill
MaxFillFrees == 1
\* malloc may skip up to this many alignment units before the block it returns
MaxGap == 0
\* SpecNpot tries every objsize 1..MaxSmall besides the ones around powers of two
MaxSmall == 40

----------------------------------------------------------------------------
(* Arithmetic helpers.                                                     *)

NULL == 0

Min(S) == CHOOSE m \in S : \A n \in S : m <= n

Max(S) == CHOOSE m \in S : \A n \in S : m >= n

Shl(x, n) == x * 2^n

Shr(x, n) == x \div 2^n

AlignUp(x, a) == ((x + a - 1) \div a) * a

\* width of unsigned / int
UINT_BITS == 32

UBits == 0 .. UINT_BITS - 1

\* a small natural number as a 32-bit word, and back
ToBits(n) == {b \in UBits : b < 31 /\ (n \div 2^b) % 2 = 1}

RECURSIVE FromBits(_)
FromBits(x) == IF x = {} THEN 0 ELSE 2^Max(x) + FromBits(x \ {Max(x)})

\* x - 1, x + 1 and x >> n on unsigned (mod 2^32)
UDec(x) == IF x = {} THEN UBits ELSE (x \ {Min(x)}) \cup (0 .. Min(x) - 1)

UInc(x) ==
    LET zeros == UBits \ x
    IN  IF zeros = {} THEN {}
        ELSE {b \in x : b > Min(zeros)} \cup {Min(zeros)}

UShr(x, n) == {b - n : b \in {c \in x : c >= n}}

\* __builtin_ctz(unsigned): the set of results; the result is undefined for 0
builtin_ctz(x) == IF x # {} THEN {Min(x)} ELSE 0 .. UINT_BITS

----------------------------------------------------------------------------
(* npot                                                                    *)

\* npot without its "--x;"
npot_no_decrement(x0) ==
    LET x2 == UShr(x0, 1) \cup x0
        x3 == UShr(x2, 2) \cup x2
        x4 == UShr(x3, 4) \cup x3
        x5 == UShr(x4, 8) \cup x4
        x6 == UShr(x5, 16) \cup x5
    IN  UInc(x6)

npot(x0) ==
    LET x1 == UDec(x0)
        x2 == UShr(x1, 1) \cup x1
        x3 == UShr(x2, 2) \cup x2
        x4 == UShr(x3, 4) \cup x3
        x5 == UShr(x4, 8) \cup x4
        x6 == UShr(x5, 16) \cup x5
    IN  UInc(x6)

\* the l2s pool_create_extra records for objsize: the set of results
create_l2s(objsize) == builtin_ctz(npot(objsize))

----------------------------------------------------------------------------
(* The build.                                                              *)

\* LP64 and ILP32
ABIS == {[long |-> 8, ptr |-> 8], [long |-> 4, ptr |-> 4]}

sizeof_ss_t == abi.long

sizeof_unsigned == UINT_BITS \div 8

SS_SIZE == sizeof_ss_t * 8

SSG_COUNT == 8 \div sizeof_ss_t

SSG_SIZE == SSG_COUNT * SS_SIZE

\* struct _pool: ssg_t slots; unsigned l2s; pool* successor
sizeof_pool ==
    AlignUp(SSG_COUNT * sizeof_ss_t + sizeof_unsigned, abi.ptr) + abi.ptr

\* malloc returns blocks aligned for any object type
MALLOC_ALIGN == 2 * abi.ptr

----------------------------------------------------------------------------
(* Slot Set: one ss_t.                                                     *)

SS_EMPTY == 0 .. SS_SIZE - 1

SS_FULL == {}

\* __builtin_ctz takes an unsigned: the argument is converted (truncated) to it
ss_find(x) == builtin_ctz({b \in x : b < UINT_BITS})

\* ss_test with "return (x & mask) != 0;"
ss_test_true_if_free(x, idx) == idx \in x

ss_test(x, idx) == idx \notin x

ss_mark(x, idx) == x \ {idx}

ss_unmark(x, idx) == x \cup {idx}

----------------------------------------------------------------------------
(* Slot Set Group: ss_t s[SSG_COUNT], indexed from 0.                      *)

SsgIndex == 0 .. SSG_COUNT - 1

\* ssg_is_full answering true as soon as some slot is occupied
ssg_is_full_some_marked(x) == \E i \in SsgIndex : x[i] # SS_EMPTY

ssg_is_full(x) == \A i \in SsgIndex : x[i] = SS_FULL

\* the set of results (more than one only through ss_find)
ssg_find(x) ==
    IF ssg_is_full(x) THEN {0}
    ELSE LET i == Min({j \in SsgIndex : x[j] # SS_FULL})
         IN  {i * SS_SIZE + r : r \in ss_find(x[i])}

\* TRUE iff ssg_find(x) calls __builtin_ctz(0)
ssg_find_ub(x) ==
    /\ ~ssg_is_full(x)
    /\ LET i == Min({j \in SsgIndex : x[j] # SS_FULL})
       IN  {b \in x[i] : b < UINT_BITS} = {}

_ssg_bucket(idx) == idx \div SSG_COUNT

_ssg_subindex(idx) == idx % SSG_COUNT

\* TRUE iff x.s[_ssg_bucket(idx)] lies outside the array s
ssg_oob(idx) == _ssg_bucket(idx) \notin SsgIndex

\* the set of results: a read outside the array yields any word
ssg_test(x, idx) ==
    IF ssg_oob(idx) THEN BOOLEAN
    ELSE {ss_test(x[_ssg_bucket(idx)], _ssg_subindex(idx))}

\* x is the callee's copy: a store outside the array does not land in it
ssg_mark(x, idx) ==
    IF ssg_oob(idx) THEN x
    ELSE [x EXCEPT ![_ssg_bucket(idx)] = ss_mark(@, _ssg_subindex(idx))]

ssg_unmark(x, idx) ==
    IF ssg_oob(idx) THEN x
    ELSE [x EXCEPT ![_ssg_bucket(idx)] = ss_unmark(@, _ssg_subindex(idx))]

\* ssg_empty leaving bit 1 of every word clear
ssg_empty_bit_clear == [i \in SsgIndex |-> SS_EMPTY \ {1}]

ssg_empty == [i \in SsgIndex |-> SS_EMPTY]

----------------------------------------------------------------------------
(* The pool.  A pool struct is [slots, l2s, successor, addr]: addr is the  *)
(* address malloc returned for it, successor an index into heap or NULL.   *)

pool_source(h, pl) == h[pl].addr + sizeof_pool

\* the addresses malloc may return for the next block
Malloc(b) == {AlignUp(b, MALLOC_ALIGN) + k * MALLOC_ALIGN : k \in 0 .. MaxGap}

\* pool_create_extra with *edata = buf + sizeof(pool): the start of the buffer
pool_create_extra_edata_at_buffer(h, b, objsize, extradata, want) ==
    IF objsize = 0
    THEN {[fatal |-> TRUE, heap |-> h, brk |-> b, edata |-> NULL, ub |-> FALSE]}
    ELSE LET rounded == npot(ToBits(objsize))
             size == sizeof_pool + SSG_SIZE * FromBits(rounded) + extradata
         IN  {[fatal |-> TRUE, heap |-> h, brk |-> b, edata |-> NULL, ub |-> FALSE]}
             \cup
             {[fatal |-> FALSE,
               heap |-> Append(h, [slots |-> ssg_empty, l2s |-> l,
                                   successor |-> NULL, addr |-> buf]),
               brk |-> buf + size,
               edata |-> IF want
                         THEN buf + sizeof_pool
                         ELSE NULL,
               ub |-> (rounded = {})]
              : buf \in Malloc(b), l \in create_l2s(ToBits(objsize))}

\* The set of outcomes of pool_create_extra(objsize, extradata, edata) on heap h:
\* [fatal, heap, brk, edata, ub]; want is (edata != 0).
pool_create_extra(h, b, objsize, extradata, want) ==
    IF objsize = 0
    THEN {[fatal |-> TRUE, heap |-> h, brk |-> b, edata |-> NULL, ub |-> FALSE]}
    ELSE LET rounded == npot(ToBits(objsize))
             size == sizeof_pool + SSG_SIZE * FromBits(rounded) + extradata
         IN  {[fatal |-> TRUE, heap |-> h, brk |-> b, edata |-> NULL, ub |-> FALSE]}
             \cup
             {[fatal |-> FALSE,
               heap |-> Append(h, [slots |-> ssg_empty, l2s |-> l,
                                   successor |-> NULL, addr |-> buf]),
               brk |-> buf + size,
               edata |-> IF want
                         THEN buf + sizeof_pool + SSG_SIZE * FromBits(rounded)
                         ELSE NULL,
               ub |-> (rounded = {})]
              : buf \in Malloc(b), l \in create_l2s(ToBits(objsize))}

pool_create(h, b, objsize) == pool_create_extra(h, b, objsize, 0, FALSE)

\* The set of outcomes of pool_alloc(pl) on heap h: [fatal, heap, brk, ret, ub].
RECURSIVE pool_alloc(_, _, _)
pool_alloc(h, b, pl) ==
    IF ssg_is_full(h[pl].slots)
    THEN LET made ==
                 IF h[pl].successor = NULL
                 THEN {[c EXCEPT !.heap = IF c.fatal THEN c.heap
                                          ELSE [c.heap EXCEPT ![pl].successor = Len(c.heap)]]
                       : c \in pool_create(h, b, Shl(1, h[pl].l2s))}
                 ELSE {[fatal |-> FALSE, heap |-> h, brk |-> b, edata |-> NULL,
                        ub |-> FALSE]}
         IN  UNION {IF c.fatal
                    THEN {[fatal |-> TRUE, heap |-> h, brk |-> b, ret |-> NULL,
                           ub |-> FALSE]}
                    ELSE {[o EXCEPT !.ub = o.ub \/ c.ub]
                          : o \in pool_alloc(c.heap, c.brk, c.heap[pl].successor)}
                    : c \in made}
    ELSE {[fatal |-> FALSE,
           heap |-> [h EXCEPT ![pl].slots = ssg_mark(@, pos)],
           brk |-> b,
           ret |-> pool_source(h, pl) + Shl(pos, h[pl].l2s),
           ub |-> (ssg_oob(pos) \/ ssg_find_ub(h[pl].slots))]
          : pos \in ssg_find(h[pl].slots)}

\* The set of outcomes of pool_free(pl, ptr) on heap h: [fatal, heap, ub].
RECURSIVE pool_free(_, _, _)

\* pool_free without its "if (!ptr) return;"
pool_free_nullcheck_dropped(h, pl, ptr) ==
    IF /\ ptr >= pool_source(h, pl)
       /\ ptr < pool_source(h, pl) + Shl(SSG_SIZE, h[pl].l2s)
    THEN LET slot == Shr(ptr - pool_source(h, pl), h[pl].l2s)
         IN  {IF marked
              THEN [fatal |-> FALSE,
                    heap |-> [h EXCEPT ![pl].slots = ssg_unmark(@, slot)],
                    ub |-> ssg_oob(slot)]
              ELSE [fatal |-> TRUE, heap |-> h, ub |-> ssg_oob(slot)]
              : marked \in ssg_test(h[pl].slots, slot)}
    ELSE IF h[pl].successor # NULL
    THEN pool_free(h, h[pl].successor, ptr)
    ELSE {[fatal |-> TRUE, heap |-> h, ub |-> FALSE]}

pool_free(h, pl, ptr) ==
    IF ptr = NULL THEN {[fatal |-> FALSE, heap |-> h, ub |-> FALSE]}
    ELSE IF /\ ptr >= pool_source(h, pl)
            /\ ptr < pool_source(h, pl) + Shl(SSG_SIZE, h[pl].l2s)
    THEN LET slot == Shr(ptr - pool_source(h, pl), h[pl].l2s)
         IN  {IF marked
              THEN [fatal |-> FALSE,
                    heap |-> [h EXCEPT ![pl].slots = ssg_unmark(@, slot)],
                    ub |-> ssg_oob(slot)]
              ELSE [fatal |-> TRUE, heap |-> h, ub |-> ssg_oob(slot)]
              : marked \in ssg_test(h[pl].slots, slot)}
    ELSE IF h[pl].successor # NULL
    THEN pool_free(h, h[pl].successor, ptr)
    ELSE {[fatal |-> TRUE, heap |-> h, ub |-> FALSE]}

\* one turn of the loop of pool_destroy, with the two statements after
\* "pl = next;" in the other order: free(pl); next = next->successor;
destroy_turn_free_first(h, pl) ==
    <<[ev |-> "free", node |-> pl], [ev |-> "read", node |-> pl]>>

\* one turn of the loop of pool_destroy: pl = next; next = next->successor;
\* free(pl); as the events it causes
destroy_turn(h, pl) ==
    <<[ev |-> "read", node |-> pl], [ev |-> "free", node |-> pl]>>

\* while (next) { ... } from next on
RECURSIVE destroy_loop(_, _)
destroy_loop(h, next) ==
    IF next = NULL THEN <<>>
    ELSE destroy_turn(h, next) \o destroy_loop(h, h[next].successor)

\* pool_destroy(pl) on heap h: its reads of a successor link and its calls
\* of free, in order
pool_destroy(h, pl) == IF pl = NULL THEN <<>> ELSE destroy_loop(h, pl)

----------------------------------------------------------------------------
(* The caller.  It always passes the head it got from pool_create, so the  *)
(* assert(pl) of pool_alloc and pool_free never fails.                     *)

HEAD == 1

\* the pointers a caller may pass to pool_free besides NULL and the ones it
\* holds: per node its header, slot bases, the byte after a slot base, and
\* the first byte after the buffer (the extra data, when there is some)
ProbePtrs(h) ==
    UNION {{h[p].addr} \cup
           {pool_source(h, p) + o :
              o \in {0, 1, Shl(1, h[p].l2s), Shl(1, h[p].l2s) + 1,
                     Shl(2, h[p].l2s), Shl(SSG_SIZE - 1, h[p].l2s),
                     Shl(SSG_SIZE, h[p].l2s)}}
           : p \in 1 .. Len(h)}

Add(bag, e) == bag (+) SetToBag({e})

Remove(bag, e) == bag (-) SetToBag({e})

----------------------------------------------------------------------------
(* Spec: one pool, from pool_create_extra on.                              *)

Init ==
    /\ abi \in ABIS
    /\ heap = <<>>
    /\ brk = MALLOC_ALIGN
    /\ edata = NULL
    /\ extra = 0
    /\ status = "none"
    /\ op = "init"
    /\ ret = NULL
    /\ arg = NULL
    /\ live = EmptyBag
    /\ misuse = FALSE
    /\ ub = FALSE
    /\ nalloc = 0
    /\ nfree = 0
    /\ hwm = 0
    /\ dtrace = <<>>
    /\ nx = {}
    /\ nl2s = 0
    /\ npc = "off"
    /\ fin = <<>>
    /\ fout = <<>>
    /\ fpc = "off"

\* SpecNpot: the rounding of pool_create_extra on its own, over the whole
\* width of unsigned.  No pool is created: the pool variables never change.
Pow2(k) == {k}

NpotInputs ==
    {ToBits(n) : n \in 0 .. MaxSmall}
    \cup {Pow2(k) : k \in UBits}
    \cup {UDec(Pow2(k)) : k \in UBits}
    \cup {UInc(Pow2(k)) : k \in UBits}
    \cup {UBits}

InitNpot ==
    /\ abi = [long |-> 8, ptr |-> 8]
    /\ heap = <<>>
    /\ brk = 0
    /\ edata = NULL
    /\ extra = 0
    /\ status = "none"
    /\ op = "init"
    /\ ret = NULL
    /\ arg = NULL
    /\ live = EmptyBag
    /\ misuse = FALSE
    /\ ub = FALSE
    /\ nalloc = 0
    /\ nfree = 0
    /\ hwm = 0
    /\ dtrace = <<>>
    /\ nx \in NpotInputs
    /\ nl2s = 0
    /\ npc = "in"
    /\ fin = <<>>
    /\ fout = <<>>
    /\ fpc = "off"

\* assert(objsize); objsize = npot(objsize); ... pl->l2s = __builtin_ctz(objsize)
Round ==
    /\ npc = "in"
    /\ IF nx = {}
       THEN npc' = "fatal" /\ nl2s' = nl2s
       ELSE npc' = "out" /\ nl2s' \in create_l2s(nx)
    /\ UNCHANGED poolvars
    /\ UNCHANGED slotvars
    /\ UNCHANGED nx

SpecNpot == InitNpot /\ [][Round]_vars

\* pool_create_extra(objsize, extradata, edata) / pool_create(objsize)
Create ==
    /\ status = "none"
    /\ \E objsize \in 0 .. MaxObjSize, extradata \in {0, MaxExtra}, want \in BOOLEAN :
         /\ (extradata # 0 => want)
         /\ \E c \in pool_create_extra(heap, brk, objsize, extradata, want) :
              /\ heap' = c.heap
              /\ brk' = c.brk
              /\ edata' = c.edata
              /\ extra' = extradata
              /\ status' = IF c.fatal THEN "fatal" ELSE "live"
              /\ ub' = c.ub
    /\ op' = "create"
    /\ UNCHANGED <<abi, ret, arg, live, misuse, nalloc, nfree, hwm, dtrace>>
    /\ UNCHANGED <<npotvars, slotvars>>

\* pool_alloc(head), the caller making at most limit calls
AllocCall(limit) ==
    /\ status = "live"
    /\ nalloc < limit
    /\ \E o \in pool_alloc(heap, brk, HEAD) :
       \E crash \in (IF o.ub THEN BOOLEAN ELSE {FALSE}) :
         /\ heap' = IF crash THEN heap ELSE o.heap
         /\ brk' = IF crash THEN brk ELSE o.brk
         /\ ret' = IF crash \/ o.fatal THEN NULL ELSE o.ret
         /\ live' = IF crash \/ o.fatal THEN live ELSE Add(live, o.ret)
         /\ status' = IF crash THEN "crashed" ELSE IF o.fatal THEN "fatal" ELSE "live"
         /\ ub' = (ub \/ o.ub)
    /\ hwm' = IF BagCardinality(live') > hwm THEN BagCardinality(live') ELSE hwm
    /\ op' = "alloc"
    /\ nalloc' = nalloc + 1
    /\ UNCHANGED <<abi, edata, extra, arg, misuse, nfree, dtrace>>
    /\ UNCHANGED <<npotvars, slotvars>>

\* pool_free(head, ptr) for a ptr of ptrs, the caller making at most limit
\* calls with a non-null pointer
FreeCall(limit, ptrs) ==
    /\ status = "live"
    /\ \E ptr \in ptrs :
         /\ (ptr # NULL => nfree < limit)
         /\ \E o \in pool_free(heap, HEAD, ptr) :
            \E crash \in (IF o.ub THEN BOOLEAN ELSE {FALSE}) :
              /\ heap' = IF crash THEN heap ELSE o.heap
              /\ status' = IF crash THEN "crashed" ELSE IF o.fatal THEN "fatal" ELSE "live"
              /\ ub' = (ub \/ o.ub)
         /\ arg' = ptr
         /\ live' = IF BagIn(ptr, live) THEN Remove(live, ptr) ELSE live
         /\ misuse' = (misuse \/ (ptr # NULL /\ ~BagIn(ptr, live)))
         /\ nfree' = IF ptr = NULL THEN nfree ELSE nfree + 1
    /\ op' = "free"
    /\ UNCHANGED <<abi, brk, edata, extra, ret, nalloc, hwm, dtrace>>
    /\ UNCHANGED <<npotvars, slotvars>>

\* pool_destroy(pl) for the head or for NULL.  Once the head is destroyed the
\* caller makes no further call on it; every block of the heap is released.
Destroy ==
    /\ status \in {"none", "live"}
    /\ \E pl \in {NULL} \cup (IF status = "live" THEN {HEAD} ELSE {}) :
         /\ dtrace' = pool_destroy(heap, pl)
         /\ heap' = IF pl = NULL THEN heap ELSE <<>>
         /\ status' = IF pl = NULL THEN status ELSE "destroyed"
    /\ op' = "destroy"
    /\ UNCHANGED <<abi, brk, edata, extra, ret, arg, live, misuse, ub, nalloc,
                   nfree, hwm>>
    /\ UNCHANGED <<npotvars, slotvars>>

\* Spec: any caller, short runs
Alloc == AllocCall(MaxAllocs)

Free == FreeCall(MaxFrees, {NULL} \cup BagToSet(live) \cup ProbePtrs(heap))

Next == Create \/ Alloc \/ Free \/ Destroy

Spec == Init /\ [][Next]_vars

\* SpecFill: a caller that frees only pointers it holds, runs long enough to
\* fill the head
AllocFill == AllocCall(MaxFill)

FreeLive == FreeCall(MaxFillFrees, BagToSet(live))

NextFill == Create \/ AllocFill \/ FreeLive

SpecFill == Init /\ [][NextFill]_vars

\* SpecSlots: the slot set and slot set group functions on their own, one
\* call on one argument.  No pool is created: the pool variables never change.

\* the slots the argument groups differ in
ProbeSlots == {0, 1, 31, 32, 63}

\* the ssg_t value in which exactly the slots of occ are occupied, slot n
\* being the slot ssg_find reports as n: bit n % SS_SIZE of s[n / SS_SIZE]
GroupOf(occ) ==
    [i \in SsgIndex |-> {b \in SS_EMPTY : i * SS_SIZE + b \notin occ}]

\* argument groups: a set of probe slots occupied, and slots 0..31 all
\* occupied or not
SlotGroups ==
    {GroupOf(occ \cup low) : occ \in SUBSET ProbeSlots, low \in {{}, 0 .. 31}}

InitSlots ==
    /\ abi \in ABIS
    /\ heap = <<>>
    /\ brk = MALLOC_ALIGN
    /\ edata = NULL
    /\ extra = 0
    /\ status = "none"
    /\ op = "init"
    /\ ret = NULL
    /\ arg = NULL
    /\ live = EmptyBag
    /\ misuse = FALSE
    /\ ub = FALSE
    /\ nalloc = 0
    /\ nfree = 0
    /\ hwm = 0
    /\ dtrace = <<>>
    /\ nx = {}
    /\ nl2s = 0
    /\ npc = "off"
    /\ \E g \in SlotGroups, idx \in 0 .. SSG_SIZE - 1 : fin = [g |-> g, idx |-> idx]
    /\ fout = <<>>
    /\ fpc = "in"

\* a call made and what it returned
Returns(call, res, undef) ==
    /\ fpc = "in"
    /\ fout' = [call |-> call, res |-> res, ub |-> undef]
    /\ fpc' = "out"
    /\ UNCHANGED <<poolvars, npotvars, fin>>

\* ss_find(x.s[0]), as ssg_find calls it: on a word that is not SS_FULL
SsFind ==
    /\ fin.g[0] # SS_FULL
    /\ \E r \in ss_find(fin.g[0]) :
         Returns("ss_find", r, {b \in fin.g[0] : b < UINT_BITS} = {})

\* ss_test(x.s[0], idx) for an idx within the word
SsTest ==
    /\ fin.idx < SS_SIZE
    /\ Returns("ss_test", ss_test(fin.g[0], fin.idx), FALSE)

SsgFind == \E r \in ssg_find(fin.g) : Returns("ssg_find", r, ssg_find_ub(fin.g))

SsgTest == \E r \in ssg_test(fin.g, fin.idx) : Returns("ssg_test", r, ssg_oob(fin.idx))

SsgMark ==
    \E r \in {ssg_mark(fin.g, fin.idx)} : Returns("ssg_mark", r, ssg_oob(fin.idx))

SsgUnmark ==
    \E r \in {ssg_unmark(fin.g, fin.idx)} : Returns("ssg_unmark", r, ssg_oob(fin.idx))

NextSlots == SsFind \/ SsTest \/ SsgFind \/ SsgTest \/ SsgMark \/ SsgUnmark

SpecSlots == InitSlots /\ [][NextSlots]_vars

----------------------------------------------------------------------------
(* Vocabulary of the properties.  A slot's state is read where ssg_find    *)
(* looks for it: slot i is bit i % SS_SIZE of word i / SS_SIZE, 1 = free.  *)

SlotIndex == 0 .. SSG_SIZE - 1

SlotFree(h, p, i) == (i % SS_SIZE) \in h[p].slots[i \div SS_SIZE]

SlotAddr(h, p, i) == pool_source(h, p) + Shl(i, h[p].l2s)

Stride(h, p) == Shl(1, h[p].l2s)

InBuffer(h, p, a) ==
    a >= pool_source(h, p) /\ a < pool_source(h, p) + SSG_SIZE * Stride(h, p)

GroupFull(h, p) == \A i \in SlotIndex : ~SlotFree(h, p, i)

\* the first node from pl on that has a free slot (NULL if there is none)
RECURSIVE FirstNonFull(_, _)
FirstNonFull(h, pl) ==
    IF pl = NULL THEN NULL
    ELSE IF ~GroupFull(h, pl) THEN pl
    ELSE FirstNonFull(h, h[pl].successor)

\* exponent of the smallest power of two >= the 32-bit word x (x # 0)
CeilLog2(x) == IF Cardinality(x) = 1 THEN Max(x) ELSE Max(x) + 1

AllocStep == nalloc' = nalloc + 1 /\ status = "live"

\* slot n of group g is free (n numbered as ssg_find numbers the slots)
GroupSlotFree(g, n) == (n % SS_SIZE) \in g[n \div SS_SIZE]

\* group g with slot n made occupied / free and nothing else changed
WithOccupied(g, n) == [g EXCEPT ![n \div SS_SIZE] = @ \ {n % SS_SIZE}]

WithFree(g, n) == [g EXCEPT ![n \div SS_SIZE] = @ \cup {n % SS_SIZE}]

Called(call) == fpc = "out" /\ fout.call = call

\* the bytes [edata, edata + extra) handed out by pool_create_extra
ExtraRegion == IF edata = NULL THEN {} ELSE edata .. edata + extra - 1

\* the bytes of node p: its pool struct and its 64-slot buffer
NodeBytes(h, p) == h[p].addr .. pool_source(h, p) + SSG_SIZE * Stride(h, p) - 1

\* the nodes of the chain from pl on
RECURSIVE Chain(_, _)
Chain(h, pl) == IF pl = NULL THEN {} ELSE {pl} \cup Chain(h, h[pl].successor)

ChainLength == Cardinality(Chain(heap, HEAD))

\* ceil(n / d)
CeilDiv(n, d) == (n + d - 1) \div d

\* heap h with every slot of every node occupied
Filled(h) == [p \in DOMAIN h |-> [h[p] EXCEPT !.slots = [i \in SsgIndex |-> SS_FULL]]]

\* the heaps pool_alloc(head) makes of Filled(h): the chain one node longer
Grown(h, b) == {o.heap : o \in {x \in pool_alloc(Filled(h), b, HEAD) : ~x.fatal}}

\* trace t releases every node of the chain from pl exactly once and nothing
\* else, and reads each node before, and never after, it releases it
ReleasesChain(h, pl, t) ==
    LET at(e, p) == {i \in DOMAIN t : t[i].ev = e /\ t[i].node = p}
    IN  /\ \A i \in DOMAIN t : t[i].node \in Chain(h, pl)
        /\ Cardinality({i \in DOMAIN t : t[i].ev = "free"}) = Cardinality(Chain(h, pl))
        /\ \A p \in Chain(h, pl) :
             /\ Cardinality(at("free", p)) = 1
             /\ at("read", p) # {}
             /\ \A r \in at("read", p), f \in at("free", p) : r < f

FreeStep == nfree' = nfree + 1 /\ status = "live"

----------------------------------------------------------------------------
(* C1: with a caller that frees only pointers it holds, no address is held *)
(* twice: pool_alloc never returns an address it returned before and that  *)
(* has not been freed since.                                               *)
C1_LiveDistinct ==
    (status = "live" /\ ~misuse) =>
        \A a \in BagToSet(live) : CopiesIn(a, live) = 1

(* C2: in every state a well-behaved caller reaches, slot i of a node is   *)
(* marked occupied iff the caller holds the pointer at offset i << l2s of  *)
(* that node's buffer.                                                     *)
C2_OccupiedIffLive ==
    (status = "live" /\ ~misuse) =>
        \A p \in 1 .. Len(heap) : \A i \in SlotIndex :
            ~SlotFree(heap, p, i) <=> BagIn(SlotAddr(heap, p, i), live)

(* C3: from a fresh pool with no frees, the first 64 pool_alloc calls      *)
(* return 64 distinct stride-multiples inside the head's buffer and create *)
(* no successor; the 65th creates exactly one successor and returns an     *)
(* address inside its buffer.                                              *)
C3_FirstSixtyFive ==
    (status = "live" /\ op = "alloc" /\ nfree = 0) =>
        /\ nalloc <= SSG_SIZE =>
             /\ Len(heap) = 1
             /\ heap[HEAD].successor = NULL
             /\ BagCardinality(live) = nalloc
             /\ \A a \in BagToSet(live) :
                  /\ CopiesIn(a, live) = 1
                  /\ InBuffer(heap, HEAD, a)
                  /\ (a - pool_source(heap, HEAD)) % Stride(heap, HEAD) = 0
        /\ nalloc = SSG_SIZE + 1 =>
             /\ Len(heap) = 2
             /\ heap[HEAD].successor = 2
             /\ heap[2].successor = NULL
             /\ InBuffer(heap, 2, ret)

(* C4: a pool_alloc that finds the head not full returns the address of    *)
(* the head's lowest free slot i and marks exactly slot i occupied.        *)
C4_LowestFree ==
    [][(AllocStep /\ status' = "live" /\ ~GroupFull(heap, HEAD)) =>
         LET i == Min({j \in SlotIndex : SlotFree(heap, HEAD, j)})
         IN  /\ ret' = SlotAddr(heap, HEAD, i)
             /\ \A j \in SlotIndex :
                  SlotFree(heap', HEAD, j) <=> (SlotFree(heap, HEAD, j) /\ j # i)
      ]_vars

C6_StrideIsNextPow2 == npc = "out" => nl2s = CeilLog2(nx)

(* C7: pool_free of a non-null pointer the caller does not hold is fatal   *)
(* and changes no slot (stated for the calls that run into no undefined    *)
(* behaviour, where what the code does is certain).                        *)
C7_ForeignFatal ==
    [][(FreeStep /\ ~BagIn(arg', live) /\ ~ub') =>
         (status' = "fatal" /\ heap' = heap)
      ]_vars

(* C8: a second pool_free of a pointer, right after the pool_free that     *)
(* released it, is fatal and leaves every slot group unchanged.            *)
C8_DoubleFree ==
    [][(/\ FreeStep /\ arg' = arg
        /\ op = "free" /\ ~misuse /\ ~BagIn(arg, live)) =>
         (status' = "fatal" /\ heap' = heap)
      ]_vars

(* C9: pool_free(pl, NULL) changes no slot group, no l2s, no successor     *)
(* link, and raises no fatal error.                                        *)
C9_FreeNullNoop ==
    [][(op' = "free" /\ arg' = NULL) =>
         (heap' = heap /\ status' = status /\ live' = live /\ brk' = brk)
      ]_vars

C9_Witness ==
    /\ op = "free" /\ arg = NULL /\ status = "live"
    /\ \E i \in SlotIndex : ~SlotFree(heap, HEAD, i)

(* C10: every address pool_alloc returns is a multiple of the stride       *)
(* 2^l2s.                                                                  *)
C10_Aligned ==
    (op = "alloc" /\ status = "live" /\ ~ub) => ret % Stride(heap, HEAD) = 0

(* C11: pool_destroy of the head releases every node of the chain exactly  *)
(* once and nothing else, k calls of free for k nodes, and reads a node's  *)
(* successor link before it releases the node and never after;             *)
(* pool_destroy(NULL) releases nothing.  The same holds of the chain as it *)
(* is after one and after two more nodes have been added to it (checked    *)
(* for the pools destroyed after at most one pool_alloc: pool_destroy      *)
(* reads nothing of a node but its successor link).                        *)
C11_DestroyReleasesChain ==
    [][op' = "destroy" =>
        /\ status' = "destroyed" => ReleasesChain(heap, HEAD, dtrace')
        /\ status' # "destroyed" => dtrace' = <<>>
        /\ status' = "destroyed" /\ nalloc <= 1 =>
             \A h2 \in Grown(heap, brk) :
                /\ Cardinality(Chain(h2, HEAD)) = Cardinality(Chain(heap, HEAD)) + 1
                /\ ReleasesChain(h2, HEAD, pool_destroy(h2, HEAD))
                /\ \A h3 \in Grown(h2, brk) :
                      ReleasesChain(h3, HEAD, pool_destroy(h3, HEAD))]_vars

C11_Witness ==
    /\ op = "destroy"
    /\ status = "destroyed"
    /\ nalloc > 0
    /\ Len(dtrace) = 2
    /\ dtrace[2] = [ev |-> "free", node |-> HEAD]

C14_RoutesToSlot ==
    /\ Called("ssg_mark") =>
          ~fout.ub /\ fout.res = WithOccupied(fin.g, fin.idx)
    /\ Called("ssg_unmark") =>
          ~fout.ub /\ fout.res = WithFree(fin.g, fin.idx)
    /\ Called("ssg_test") =>
          ~fout.ub /\ fout.res = ss_test(fin.g[fin.idx \div SS_SIZE], fin.idx % SS_SIZE)
    /\ Called("ssg_find") /\ ~ssg_is_full(fin.g) =>
          \A r \in ssg_find(ssg_mark(fin.g, fout.res)) : r # fout.res

(* C15 as stated: the number of nodes of the chain is at most              *)
(* ceil(H / 64), H the most pointers the caller has held at once.          *)
C15_LengthBound == status = "live" => ChainLength <= CeilDiv(hwm, SSG_SIZE)

(* C15 amended: the number of nodes of the chain is at most the larger of  *)
(* 1 and ceil(H / 64) (the head exists before anything is allocated), and  *)
(* a call adds a node only when every node of the chain is full.           *)
C15_LengthBoundFromOne ==
    [][/\ status' = "live" => ChainLength' <= Max({1, CeilDiv(hwm', SSG_SIZE)})
       /\ status = "live" /\ Len(heap') > Len(heap) =>
             \A p \in Chain(heap, HEAD) : GroupFull(heap, p)]_vars

C15_Witness ==
    /\ status = "live"
    /\ op = "alloc"
    /\ hwm > SSG_SIZE
    /\ ChainLength = 1

(* C16: every node of the chain has the l2s of the head; so has the node   *)
(* pool_alloc adds when the chain is full, which it creates with objsize   *)
(* 1 << l2s; and for every power of two 1 << l of unsigned,                *)
(* pool_create_extra records l2s = l again.                                *)
C16_SameL2s ==
    status = "live" =>
        /\ \A p \in Chain(heap, HEAD) : heap[p].l2s = heap[HEAD].l2s
        /\ \A h2 \in Grown(heap, brk) :
              /\ Cardinality(Chain(h2, HEAD)) = ChainLength + 1
              /\ \A p \in Chain(h2, HEAD) : h2[p].l2s = heap[HEAD].l2s
        /\ \A c \in pool_create(heap, brk, Stride(heap, HEAD)) :
              ~c.fatal => c.heap[Len(c.heap)].l2s = heap[HEAD].l2s
        /\ op = "create" => \A l \in UBits : create_l2s(Pow2(l)) = {l}

C16_Witness ==
    /\ status = "live"
    /\ op = "alloc"
    /\ heap[HEAD].l2s = 3
    /\ Grown(heap, brk) # {}

C18_FindLowestFree ==
    /\ Called("ssg_find") /\ ~ssg_is_full(fin.g) =>
          /\ ~fout.ub
          /\ fout.res = Min({n \in SlotIndex : GroupSlotFree(fin.g, n)})
    /\ Called("ss_find") =>
          /\ ~fout.ub
          /\ fout.res = Min(fin.g[0])

(* C19: pool_free of a pointer the caller holds, in a run with no          *)
(* undefined behaviour, returns normally and changes one thing only: slot  *)
(* (p - pool_source(N)) >> l2s of the node N whose buffer holds p becomes  *)
(* free; every other slot, every l2s, every successor link and the number  *)
(* of nodes stay as they were.                                             *)
C19_FreeOnlyThatSlot ==
    [][FreeStep /\ BagIn(arg', live) /\ ~ub' =>
         LET N == CHOOSE p \in Chain(heap, HEAD) : InBuffer(heap, p, arg')
             slot == Shr(arg' - pool_source(heap, N), heap[N].l2s)
         IN  /\ status' = "live"
             /\ heap' = [heap EXCEPT ![N].slots = WithFree(@, slot)]]_vars

(* C20: pool_create_extra makes a node with all 64 slots free and no       *)
(* successor.  A pool_alloc call adds at most one node, adds one only when *)
(* every node of the chain is full, and adds none when it finds a node     *)
(* that is not full.  When every node is full, the call adds exactly one   *)
(* node, links it behind the tail, leaves it with no successor and with    *)
(* slot 0 occupied and the other 63 free, and returns the address of its   *)
(* slot 0.                                                                 *)
C20_LazyOneAtATime ==
    [][/\ op' = "create" /\ status' = "live" =>
             /\ heap'[HEAD].slots = GroupOf({})
             /\ heap'[HEAD].successor = NULL
       /\ AllocStep =>
             /\ Len(heap') <= Len(heap) + 1
             /\ Len(heap') > Len(heap) =>
                   \A p \in Chain(heap, HEAD) : GroupFull(heap, p)
             /\ FirstNonFull(heap, HEAD) # NULL => Len(heap') = Len(heap)
             /\ \A o \in pool_alloc(Filled(heap), brk, HEAD) :
                   ~o.fatal =>
                      LET n == Len(o.heap)
                          tail == CHOOSE p \in Chain(heap, HEAD) : heap[p].successor = NULL
                      IN  /\ n = Len(heap) + 1
                          /\ o.heap[tail].successor = n
                          /\ o.heap[n].successor = NULL
                          /\ o.heap[n].slots = GroupOf({0})
                          /\ o.ret = SlotAddr(o.heap, n, 0)
                          /\ \A p \in DOMAIN heap :
                                /\ o.heap[p].slots = Filled(heap)[p].slots
                                /\ p # tail => o.heap[p] = Filled(heap)[p]]_vars

C20_Witness ==
    /\ op = "alloc"
    /\ status = "live"
    /\ nalloc > SSG_SIZE
    /\ ret # NULL
    /\ Len(heap) = 1
    /\ FirstNonFull(heap, HEAD) = HEAD


====
